---- MODULE Spec2Model ----
(***************************************************************************)
(* WinApkInfo (src/main.py): the aapt2 "dump badging" parser, the display  *)
(* assembly of MainWindow.fill_info and the process_apk / reparse_current  *)
(* handlers of the main window.                                            *)
(*                                                                         *)
(* Text is a sequence of lexemes.  Every lexeme is a run of characters of  *)
(* one class of the regular expressions of the parser: the quote, white    *)
(* space, [\w-] characters, or other punctuation.  A Python string is the  *)
(* concatenation of its lexemes, the empty string is << >>, and a list of  *)
(* strings is a sequence of such sequences.  A dict is the sequence of its *)
(* <<key, value>> pairs in insertion order.                                *)
(***************************************************************************)
EXTENDS Integers, Sequences, FiniteSets, TLC

VARIABLES pc, frags, text, info, calls, te_raw, display, listed, dialog, last, env

vars == <<pc, frags, text, info, calls, te_raw, display, listed, dialog, last, env>>

-----------------------------------------------------------------------------
(* Character classes of the lexemes.                                       *)

Q == "'"

SP == " "

NL == "\n"

\* the no-break space U+00A0
NBSP == "<nbsp>"

\* \s of the re module, and the characters str.strip() removes
IsSpace(t) == t \in {SP, NL, NBSP}

\* lexemes made of [0-9] only
DigitTokens == {"48", "192", "33"}

\* lexemes made of [\w-] only
WordTokens ==
    {"zh-CN", "zh-HK", "zh-TW", "zh", "en-GB", "en-US", "ja", "ko", "fr", "de",
     "A", "B", "C", "D", "E", "F", "P1", "P2", "x86", "arm64-v8a", "small", "large",
     "package", "uses-permission", "uses-feature", "uses-implied-feature",
     "uses-permission-sdk-23", "application-label", "application-label-",
     "application-icon-", "application", "launchable-activity", "supports-screens",
     "supports-any-density", "densities", "locales", "native-code",
     "alt-native-code", "minSdkVersion", "targetSdkVersion",
     "es", "it", "pt", "ru", "ar", "nl-NL"} \cup DigitTokens

IsWord(t) == t \in WordTokens

IsDigits(t) == t \in DigitTokens

-----------------------------------------------------------------------------
(* Matching primitives.  A position is an index into the text; 0 stands    *)
(* for "no match".                                                         *)

RECURSIVE SkipSpace(_, _)
\* the position after the longest run of \s starting at i
SkipSpace(s, i) ==
    IF i <= Len(s) /\ IsSpace(s[i]) THEN SkipSpace(s, i + 1) ELSE i

RECURSIVE SkipWord(_, _)
\* the position after the longest run of [\w-] starting at i
SkipWord(s, i) ==
    IF i <= Len(s) /\ IsWord(s[i]) THEN SkipWord(s, i + 1) ELSE i

RECURSIVE SkipDigits(_, _)
\* the position after the longest run of [0-9] starting at i
SkipDigits(s, i) ==
    IF i <= Len(s) /\ IsDigits(s[i]) THEN SkipDigits(s, i + 1) ELSE i

RECURSIVE NextQuote(_, _)
\* the position of the first quote at or after i, Len(s) + 1 when there is none
NextQuote(s, i) ==
    IF i <= Len(s) /\ s[i] # Q THEN NextQuote(s, i + 1) ELSE i

\* a literal: the position after it, when it stands at i
AfterLit(s, i, lit) ==
    IF /\ i > 0
       /\ i + Len(lit) - 1 <= Len(s)
       /\ s[i] = lit[1]
       /\ SubSeq(s, i, i + Len(lit) - 1) = lit
    THEN i + Len(lit)
    ELSE 0

\* \s+ : the position after it
AfterSpaces1(s, i) ==
    IF i > 0 /\ i <= Len(s) /\ IsSpace(s[i]) THEN SkipSpace(s, i) ELSE 0

\* '[^']*' standing at i: the position of the closing quote
QuoteClose(s, i) ==
    IF i > 0 /\ i <= Len(s) /\ s[i] = Q /\ NextQuote(s, i + 1) <= Len(s)
    THEN NextQuote(s, i + 1)
    ELSE 0

NoMatch == [ok |-> FALSE, end |-> 0, g |-> << >>]

\* a match: the position after it and its groups
Match(e, groups) == [ok |-> TRUE, end |-> e, g |-> groups]

\* <marker> ... '([^']+)' : o is the position of the opening quote
QuotedPlus(s, o) ==
    LET q == QuoteClose(s, o)
    IN  IF q > o + 1 THEN Match(q + 1, <<SubSeq(s, o + 1, q - 1)>>) ELSE NoMatch

\* <marker> ... '([^']*)' : o is the position of the opening quote
QuotedStar(s, o) ==
    LET q == QuoteClose(s, o)
    IN  IF q > o THEN Match(q + 1, <<SubSeq(s, o + 1, q - 1)>>) ELSE NoMatch

Min(S) == CHOOSE x \in S : \A y \in S : x <= y

\* group k of a match, "" when there is no match
Group(m, k) == IF m.ok THEN m.g[k] ELSE << >>

-----------------------------------------------------------------------------
(* The regular expressions of parse_aapt2_output.                          *)

\* package:\s+name='([^']+)'\s+versionCode='([^']+)'\s+versionName='([^']+)'.*?
PackageAt(s, i) ==
    LET a  == AfterLit(s, AfterSpaces1(s, AfterLit(s, i, <<"package", ":">>)), <<"name=">>)
        m1 == QuotedPlus(s, a)
        b  == AfterLit(s, AfterSpaces1(s, m1.end), <<"versionCode=">>)
        m2 == QuotedPlus(s, b)
        c  == AfterLit(s, AfterSpaces1(s, m2.end), <<"versionName=">>)
        m3 == QuotedPlus(s, c)
    IN  IF m1.ok /\ m2.ok /\ m3.ok
        THEN Match(m3.end, <<m1.g[1], m2.g[1], m3.g[1]>>)
        ELSE NoMatch

\* <attr>='([^']+)'
AttrAt(attr, s, i) == QuotedPlus(s, AfterLit(s, i, <<attr>>))

PlatformNameAt(s, i) == AttrAt("platformBuildVersionName=", s, i)

PlatformCodeAt(s, i) == AttrAt("platformBuildVersionCode=", s, i)

CompileSdkAt(s, i) == AttrAt("compileSdkVersion=", s, i)

CompileCodenameAt(s, i) == AttrAt("compileSdkVersionCodename=", s, i)

\* minSdkVersion:'([^']+)'
MinSdkAt(s, i) == QuotedPlus(s, AfterLit(s, i, <<"minSdkVersion", ":">>))

\* targetSdkVersion:'([^']+)'
TargetSdkAt(s, i) == QuotedPlus(s, AfterLit(s, i, <<"targetSdkVersion", ":">>))

\* application-label-([\w-]+):'([^']*)'
LocaleLabelAt(s, i) ==
    LET a == AfterLit(s, i, <<"application-label-">>)
        b == IF a > 0 /\ SkipWord(s, a) > a THEN SkipWord(s, a) ELSE 0
        m == QuotedStar(s, AfterLit(s, b, <<":">>))
    IN  IF m.ok THEN Match(m.end, <<SubSeq(s, a, b - 1), m.g[1]>>) ELSE NoMatch

\* application-label:'([^']*)'
GenericLabelAt(s, i) == QuotedStar(s, AfterLit(s, i, <<"application-label", ":">>))

\* application:\s+label='([^']*)'
AppNodeLabelAt(s, i) ==
    QuotedStar(s, AfterLit(s, AfterSpaces1(s, AfterLit(s, i, <<"application", ":">>)),
                           <<"label=">>))

\* launchable-activity:\s+name='([^']*)'(?:\s+label='([^']*)')?
\* (the optional tail changes neither whether the expression matches nor group 1,
\* the one group the parser reads)
LaunchableAt(s, i) ==
    QuotedStar(s, AfterLit(s, AfterSpaces1(s, AfterLit(s, i, <<"launchable-activity", ":">>)),
                           <<"name=">>))

\* <marker>:\s+name='([^']+)'
NameEntryAt(marker, s, i) ==
    QuotedPlus(s, AfterLit(s, AfterSpaces1(s, AfterLit(s, i, <<marker, ":">>)), <<"name=">>))

\* the permission pattern widened to the -sdk-23 variant of the marker
PermissionOrSdk23At(s, i) ==
    IF NameEntryAt("uses-permission", s, i).ok
    THEN NameEntryAt("uses-permission", s, i)
    ELSE NameEntryAt("uses-permission-sdk-23", s, i)

PermissionAt(s, i) == NameEntryAt("uses-permission", s, i)

FeatureAt(s, i) == NameEntryAt("uses-feature", s, i)

ImpliedFeatureAt(s, i) == NameEntryAt("uses-implied-feature", s, i)

\* '([^']+)'
QuotedAt(s, i) == QuotedPlus(s, i)

RECURSIVE QuotedRunEnd(_, _)
\* (?:'[^']+'\s*)* standing at i: the position after it
QuotedRunEnd(s, i) ==
    IF QuotedPlus(s, i).ok
    THEN QuotedRunEnd(s, SkipSpace(s, QuotedPlus(s, i).end))
    ELSE i

\* <marker>:\s+((?:'[^']+'\s*)+)
QuotedRunAt(marker, s, i) ==
    LET a == AfterSpaces1(s, AfterLit(s, i, <<marker, ":">>))
    IN  IF a > 0 /\ QuotedRunEnd(s, a) > a
        THEN Match(QuotedRunEnd(s, a), <<SubSeq(s, a, QuotedRunEnd(s, a) - 1)>>)
        ELSE NoMatch

ScreensAt(s, i) == QuotedRunAt("supports-screens", s, i)

DensitiesAt(s, i) == QuotedRunAt("densities", s, i)

LocalesAt(s, i) == QuotedRunAt("locales", s, i)

\* supports-any-density:\s+'([^']+)'
AnyDensityAt(s, i) ==
    QuotedPlus(s, AfterSpaces1(s, AfterLit(s, i, <<"supports-any-density", ":">>)))

\* application-icon-([0-9]+):'([^']+)'
IconAt(s, i) ==
    LET a == AfterLit(s, i, <<"application-icon-">>)
        b == IF a > 0 /\ SkipDigits(s, a) > a THEN SkipDigits(s, a) ELSE 0
        m == QuotedPlus(s, AfterLit(s, b, <<":">>))
    IN  IF m.ok THEN Match(m.end, <<SubSeq(s, a, b - 1), m.g[1]>>) ELSE NoMatch

\* re.search: the leftmost match, f[i] being the match that starts at position i
Search(f) ==
    LET hits == {i \in DOMAIN f : f[i].ok}
    IN  IF hits = {} THEN NoMatch ELSE f[Min(hits)]

RECURSIVE Scan(_, _, _)
\* the groups of the leftmost match at or after i, then of those after its end
Scan(f, i, n) ==
    LET hits == {j \in i..n : f[j].ok}
    IN  IF hits = {} THEN << >>
        ELSE <<f[Min(hits)].g>> \o Scan(f, f[Min(hits)].end, n)

\* re.findall: the groups of the non-overlapping matches, left to right
FindAll(f, n) == Scan(f, 1, n)

\* the first group of every match: findall of an expression with one group
RECURSIVE Firsts(_)
Firsts(ms) == IF ms = << >> THEN << >> ELSE <<Head(ms)[1]>> \o Firsts(Tail(ms))

\* re.findall(r"'([^']+)'", s)
QuotedIn(s) == Firsts(FindAll([i \in 1..Len(s) |-> QuotedAt(s, i)], Len(s)))

-----------------------------------------------------------------------------
(* str and dict operations used by the parser.                             *)

RECURSIVE LStrip(_)
LStrip(s) == IF s # << >> /\ IsSpace(Head(s)) THEN LStrip(Tail(s)) ELSE s

RECURSIVE RStrip(_)
RStrip(s) ==
    IF s # << >> /\ IsSpace(s[Len(s)]) THEN RStrip(SubSeq(s, 1, Len(s) - 1)) ELSE s

\* str.lstrip() in the place of str.strip()
StripLeftOnly(s) == LStrip(s)

\* str.strip()
Strip(s) == RStrip(LStrip(s))

RECURSIVE SplitLines(_)
\* str.splitlines(): the text ends a line at every line break, and a line
\* break at the very end opens no further line
SplitLines(s) ==
    IF s = << >> THEN << >>
    ELSE LET n == Min({i \in 1..(Len(s) + 1) : i = Len(s) + 1 \/ s[i] = NL})
         IN  <<SubSeq(s, 1, n - 1)>> \o
             (IF n >= Len(s) THEN << >> ELSE SplitLines(SubSeq(s, n + 1, Len(s))))

\* str.startswith
StartsWith(s, lit) == Len(s) >= Len(lit) /\ SubSeq(s, 1, Len(lit)) = lit

DictHas(d, k) == \E i \in 1..Len(d) : d[i][1] = k

\* d.get(k, "")
DictGet(d, k) ==
    IF DictHas(d, k) THEN d[CHOOSE i \in 1..Len(d) : d[i][1] = k][2] ELSE << >>

\* d[k] = v : a key already present keeps its place
DictSet(d, k, v) ==
    IF DictHas(d, k)
    THEN [i \in 1..Len(d) |-> IF d[i][1] = k THEN <<k, v>> ELSE d[i]]
    ELSE Append(d, <<k, v>>)

RECURSIVE DictFrom(_, _)
\* for k, v in pairs: d[k] = v
DictFrom(d, pairs) ==
    IF pairs = << >> THEN d
    ELSE DictFrom(DictSet(d, Head(pairs)[1], Head(pairs)[2]), Tail(pairs))

-----------------------------------------------------------------------------
(* parse_aapt2_output.                                                     *)

\* a labels dict kept from one call to the next, as a module-level default would be
SharedLabels ==
    IF "app_name_labels" \in DOMAIN info THEN info.app_name_labels ELSE << >>

\* the dict each call creates for "app_name_labels"
NewLabels == << >>

\* the record a call starts from
InfoDefaults(t) ==
    [package_name |-> << >>, version_name |-> << >>, version_code |-> << >>,
     platform_build_version_name |-> << >>, platform_build_version_code |-> << >>,
     compile_sdk_version |-> << >>, compile_sdk_codename |-> << >>,
     min_sdk |-> << >>, target_sdk |-> << >>,
     app_name |-> << >>, app_name_labels |-> NewLabels,
     launchable_activity |-> << >>,
     permissions |-> << >>, features |-> << >>, implied_features |-> << >>,
     supports_screens |-> << >>, supports_any_density |-> << >>,
     densities |-> << >>, locales |-> << >>,
     icons |-> << >>, raw |-> Strip(t), architectures |-> << >>]

\* the locales tried first, in this order
ChinesePreferred == <<(<<"zh-CN">>), (<<"zh-HK">>), (<<"zh-TW">>)>>

RECURSIVE FirstPreferred(_, _)
\* for pref in (...): if labels.get(pref): app_name = labels[pref]; break
FirstPreferred(labels, prefs) ==
    IF prefs = << >> THEN << >>
    ELSE IF DictGet(labels, Head(prefs)) # << >> THEN DictGet(labels, Head(prefs))
    ELSE FirstPreferred(labels, Tail(prefs))

\* a or b, on strings
OrElse(a, b) == IF a # << >> THEN a ELSE b

\* the fallback chain with the bare "zh" label tried before the generic label
FallbackNameZhFirst(labels, generic_label, app_node_label) ==
    OrElse(DictGet(labels, <<"zh">>), OrElse(generic_label, app_node_label))

\* the fallback chain taken when no preferred Chinese label is set
FallbackName(labels, generic_label, app_node_label) ==
    OrElse(generic_label, OrElse(DictGet(labels, <<"zh">>), app_node_label))

\* the display name
ResolveAppName(labels, generic_label, app_node_label) ==
    IF FirstPreferred(labels, ChinesePreferred) # << >>
    THEN FirstPreferred(labels, ChinesePreferred)
    ELSE FallbackName(labels, generic_label, app_node_label)

\* the line test without the alt-native-code prefix
IsNativeCodeLine(line) == StartsWith(line, <<"native-code", ":">>)

\* a line of the dump that lists architectures
IsArchLine(line) ==
    \/ StartsWith(line, <<"native-code", ":">>)
    \/ StartsWith(line, <<"alt-native-code", ":">>)

RECURSIVE ArchsOf(_)
\* for line in text.splitlines(): ... archs.extend(found)
ArchsOf(lines) ==
    IF lines = << >> THEN << >>
    ELSE (IF IsArchLine(Strip(Head(lines)))
          THEN QuotedIn(Strip(Head(lines)))
          ELSE << >>) \o ArchsOf(Tail(lines))

\* the quoted tokens of group 1 of a supports-screens / densities / locales match
QuotedTokens(m, old) == IF m.ok THEN QuotedIn(m.g[1]) ELSE old

\* the labels dict after the findall loop over the per-locale labels
LabelsOf(t) ==
    DictFrom(NewLabels, FindAll([i \in 1..Len(t) |-> LocaleLabelAt(t, i)], Len(t)))

parse_aapt2_output(t) ==
    LET d      == InfoDefaults(t)
        n      == Len(t)
        m_pkg  == Search([i \in 1..n |-> PackageAt(t, i)])
        labels == LabelsOf(t)
    IN  [d EXCEPT
           !.package_name = IF m_pkg.ok THEN m_pkg.g[1] ELSE @,
           !.version_code = IF m_pkg.ok THEN m_pkg.g[2] ELSE @,
           !.version_name = IF m_pkg.ok THEN m_pkg.g[3] ELSE @,
           !.platform_build_version_name =
               Group(Search([i \in 1..n |-> PlatformNameAt(t, i)]), 1),
           !.platform_build_version_code =
               Group(Search([i \in 1..n |-> PlatformCodeAt(t, i)]), 1),
           !.compile_sdk_version = Group(Search([i \in 1..n |-> CompileSdkAt(t, i)]), 1),
           !.compile_sdk_codename =
               Group(Search([i \in 1..n |-> CompileCodenameAt(t, i)]), 1),
           !.min_sdk = Group(Search([i \in 1..n |-> MinSdkAt(t, i)]), 1),
           !.target_sdk = Group(Search([i \in 1..n |-> TargetSdkAt(t, i)]), 1),
           !.app_name_labels = labels,
           !.app_name =
               ResolveAppName(labels,
                              Group(Search([i \in 1..n |-> GenericLabelAt(t, i)]), 1),
                              Group(Search([i \in 1..n |-> AppNodeLabelAt(t, i)]), 1)),
           !.launchable_activity = Group(Search([i \in 1..n |-> LaunchableAt(t, i)]), 1),
           !.permissions = Firsts(FindAll([i \in 1..n |-> PermissionAt(t, i)], n)),
           !.features = Firsts(FindAll([i \in 1..n |-> FeatureAt(t, i)], n)),
           !.implied_features =
               Firsts(FindAll([i \in 1..n |-> ImpliedFeatureAt(t, i)], n)),
           !.supports_screens = QuotedTokens(Search([i \in 1..n |-> ScreensAt(t, i)]), @),
           !.supports_any_density = Group(Search([i \in 1..n |-> AnyDensityAt(t, i)]), 1),
           !.densities = QuotedTokens(Search([i \in 1..n |-> DensitiesAt(t, i)]), @),
           !.locales = QuotedTokens(Search([i \in 1..n |-> LocalesAt(t, i)]), @),
           !.icons = DictFrom(<< >>, FindAll([i \in 1..n |-> IconAt(t, i)], n)),
           !.architectures = ArchsOf(SplitLines(t))]

-----------------------------------------------------------------------------
(* Input texts.  A text is built from fragments of a dump, so that what a  *)
(* text says can be read off its fragments without the parser.             *)

MaxNameFrags == 3

MaxFrags == 3

MaxJunk == 4

\* name='v'
NameAttr(v) == <<"name=", Q>> \o v \o <<Q>>

\* 'v'
Quoted(v) == <<Q>> \o v \o <<Q>>

\* application-label-<loc>:'v' and a line break
LocaleLine(loc, v) == <<"application-label-", loc, ":">> \o Quoted(v) \o <<NL>>

Frag(f) ==
    CASE f = "cn"    -> LocaleLine("zh-CN", <<"A">>)
      [] f = "cn0"   -> LocaleLine("zh-CN", << >>)
      [] f = "hk"    -> LocaleLine("zh-HK", <<"B">>)
      [] f = "hk0"   -> LocaleLine("zh-HK", << >>)
      [] f = "tw"    -> LocaleLine("zh-TW", <<"C">>)
      [] f = "tw0"   -> LocaleLine("zh-TW", << >>)
      [] f = "gen"   -> <<"application-label", ":">> \o Quoted(<<"D">>) \o <<NL>>
      [] f = "gen0"  -> <<"application-label", ":">> \o Quoted(<< >>) \o <<NL>>
      [] f = "zh"    -> LocaleLine("zh", <<"E">>)
      [] f = "zh0"   -> LocaleLine("zh", << >>)
      [] f = "node"  -> <<"application", ":", SP, "label=">> \o Quoted(<<"F">>) \o <<NL>>
      [] f = "node0" -> <<"application", ":", SP, "label=">> \o Quoted(<< >>) \o <<NL>>
      [] f = "p1"    -> <<"uses-permission", ":", SP>> \o NameAttr(<<"P1">>) \o <<NL>>
      [] f = "p2"    -> <<"uses-permission", ":", SP, SP>> \o NameAttr(<<"P2">>) \o <<NL>>
      [] f = "f1"    -> <<"uses-feature", ":", SP>> \o NameAttr(<<"A">>) \o <<NL>>
      [] f = "f2"    -> <<"uses-feature", ":", SP>> \o NameAttr(<<"P1">>) \o <<NL>>
      [] f = "i1"    -> <<"uses-implied-feature", ":", SP>> \o NameAttr(<<"B">>) \o <<NL>>
      [] f = "sdk23" -> <<"uses-permission-sdk-23", ":", SP>> \o NameAttr(<<"C">>) \o <<NL>>
      [] f = "q"     -> <<Q>>
      [] f = "nat2"  -> <<"native-code", ":", SP>> \o Quoted(<<"arm64-v8a">>) \o <<SP>>
                        \o Quoted(<<"x86">>) \o <<NL>>
      [] f = "alt"   -> <<"alt-native-code", ":", SP>> \o Quoted(<<"x86">>) \o <<NL>>
      [] f = "natsp" -> <<SP, SP, "native-code", ":", SP>> \o Quoted(<<"A">>) \o <<SP, NL>>
      [] f = "nat0"  -> <<"native-code", ":", NL>>
      [] f = "natp"  -> <<"native-code", ":", SP>> \o Quoted(<<"B">>)
      [] f = "mid"   -> <<"C", SP, "native-code", ":", SP>> \o Quoted(<<"D">>) \o <<NL>>
      [] f = "dens"  -> <<"densities", ":", SP>> \o Quoted(<<"48">>) \o <<NL>>
      [] f = "scr"   -> <<"supports-screens", ":", SP>> \o Quoted(<<"small">>) \o <<SP>>
                        \o Quoted(<<"large">>) \o <<NL>>
      [] f = "scr1"  -> <<"supports-screens", ":", SP>> \o Quoted(<<"small">>) \o <<NL>>
      [] f = "loc"   -> <<"locales", ":", SP>> \o Quoted(<<"zh-CN">>) \o <<SP>>
                        \o Quoted(<<"fr">>) \o <<NL>>
      [] f = "any"   -> <<"supports-any-density", ":", SP>> \o Quoted(<<"A">>) \o <<NL>>
      [] f = "bare"  -> Quoted(<<"x86">>) \o <<NL>>
      [] f = "sp"    -> <<SP>>
      [] f = "nl"    -> <<NL>>
      [] f = "w"     -> <<"A">>
      [] f = "perm_" -> <<"uses-permission", ":", SP, "name=", Q>>
      [] f = "nat_"  -> <<"native-code", ":">>
      [] f = "pkg_"  -> <<"package", ":", SP>> \o NameAttr(<<"A">>) \o <<NL>>

RECURSIVE Flatten(_)
\* the text of a sequence of fragments
Flatten(frs) == IF frs = << >> THEN << >> ELSE Frag(Head(frs)) \o Flatten(Tail(frs))

\* the sequences of at most n fragments of an alphabet
FragSeqs(alphabet, n) == UNION {[1..k -> alphabet] : k \in 0..n}

NameFrags ==
    {"cn", "cn0", "hk", "hk0", "tw", "tw0", "gen", "gen0", "zh", "zh0", "node", "node0"}

PermFrags == {"p1", "p2", "f1", "f2", "i1", "sdk23", "q"}

ArchFrags == {"nat2", "alt", "natsp", "nat0", "natp", "mid", "dens"}

ScreenFrags == {"scr", "scr1", "dens", "loc", "any", "bare"}

JunkFrags == {"sp", "nl", "q", "w", "perm_", "nat_", "pkg_"}

-----------------------------------------------------------------------------
(* The parser applied to one text.                                         *)

\* no record yet
NoRecord == [none |-> TRUE]

NoDisplay == [none |-> TRUE]

NoDialog == [kind |-> "none"]

NoEnv == [sdk_file |-> "absent"]

\* no handler has run yet
NoOp == [op |-> "none"]

InitParse(alphabet, n) ==
    /\ pc = "input"
    /\ frags \in FragSeqs(alphabet, n)
    /\ text = Flatten(frags)
    /\ info = NoRecord
    /\ calls = << >>
    /\ te_raw = << >>
    /\ display = NoDisplay
    /\ listed = << >>
    /\ dialog = NoDialog
    /\ last = NoOp
    /\ env = NoEnv

\* info = parse_aapt2_output(text)
Parse ==
    /\ pc = "input"
    /\ info' = parse_aapt2_output(text)
    /\ pc' = "parsed"
    /\ UNCHANGED <<frags, text, calls, te_raw, display, listed, dialog, last, env>>

NextParse == Parse

InitName == InitParse(NameFrags, MaxNameFrags)

SpecName == InitName /\ [][NextParse]_vars

InitPerm == InitParse(PermFrags, MaxFrags)

SpecPerm == InitPerm /\ [][NextParse]_vars

InitArch == InitParse(ArchFrags, MaxFrags)

SpecArch == InitArch /\ [][NextParse]_vars

InitScreens == InitParse(ScreenFrags, MaxFrags)

SpecScreens == InitScreens /\ [][NextParse]_vars

InitJunk == InitParse(JunkFrags, MaxJunk)

SpecJunk == InitJunk /\ [][NextParse]_vars

-----------------------------------------------------------------------------
(* What a text says, read off its fragments.                               *)

\* the label source a fragment is an entry of
EntrySource(f) ==
    CASE f \in {"cn", "cn0"}     -> "zh-CN"
      [] f \in {"hk", "hk0"}     -> "zh-HK"
      [] f \in {"tw", "tw0"}     -> "zh-TW"
      [] f \in {"gen", "gen0"}   -> "generic"
      [] f \in {"zh", "zh0"}     -> "zh"
      [] f \in {"node", "node0"} -> "node"
      [] OTHER                   -> "none"

\* the label a fragment gives its source
EntryLabel(f) ==
    CASE f = "cn"   -> <<"A">>
      [] f = "hk"   -> <<"B">>
      [] f = "tw"   -> <<"C">>
      [] f = "gen"  -> <<"D">>
      [] f = "zh"   -> <<"E">>
      [] f = "node" -> <<"F">>
      [] OTHER      -> << >>

\* the label of the first entry of a source, "" when it has none
FirstLabel(frs, src) ==
    LET at == {i \in 1..Len(frs) : EntrySource(frs[i]) = src}
    IN  IF at = {} THEN << >> ELSE EntryLabel(frs[Min(at)])

\* the label of the last entry of a source, "" when it has none
LastLabel(frs, src) ==
    LET at == {i \in 1..Len(frs) : EntrySource(frs[i]) = src}
    IN  IF at = {} THEN << >> ELSE EntryLabel(frs[CHOOSE i \in at : \A j \in at : j <= i])

\* the six candidates in priority order: a locale label is the one of the last
\* entry of the locale, the generic and node labels those of their first entry
Candidates(frs) ==
    <<LastLabel(frs, "zh-CN"), LastLabel(frs, "zh-HK"), LastLabel(frs, "zh-TW"),
      FirstLabel(frs, "generic"), LastLabel(frs, "zh"), FirstLabel(frs, "node")>>

RECURSIVE FirstNonEmpty(_)
FirstNonEmpty(c) ==
    IF c = << >> THEN << >>
    ELSE IF Head(c) # << >> THEN Head(c) ELSE FirstNonEmpty(Tail(c))

EntryKind(f) ==
    CASE f \in {"p1", "p2"} -> "uses-permission"
      [] f \in {"f1", "f2"} -> "uses-feature"
      [] f = "i1"           -> "uses-implied-feature"
      [] OTHER              -> "none"

EntryName(f) ==
    CASE f \in {"p1", "f2"} -> <<"P1">>
      [] f = "p2"           -> <<"P2">>
      [] f = "f1"           -> <<"A">>
      [] f = "i1"           -> <<"B">>
      [] OTHER              -> << >>

RECURSIVE NamesOf(_, _)
\* the names of the entries of one kind, in order of appearance
NamesOf(frs, kind) ==
    IF frs = << >> THEN << >>
    ELSE (IF EntryKind(Head(frs)) = kind THEN <<EntryName(Head(frs))>> ELSE << >>)
         \o NamesOf(Tail(frs), kind)

\* C3: permissions holds one element per uses-permission entry of the text, in
\* order of appearance and with duplicates kept; features and implied_features
\* likewise for their markers; no entry of one marker shows up under another.
EntriesInOrder ==
    pc = "parsed" =>
        /\ info.permissions = NamesOf(frags, "uses-permission")
        /\ info.features = NamesOf(frags, "uses-feature")
        /\ info.implied_features = NamesOf(frags, "uses-implied-feature")

\* P1 twice, with a feature of the same name between the two
EntriesInOrderWitness ==
    /\ pc = "parsed"
    /\ frags = <<"p1", "f2", "p1">>
    /\ info.permissions = <<(<<"P1">>), (<<"P1">>)>>
    /\ info.features = <<(<<"P1">>)>>

\* the quoted tokens of a fragment, in order
FragQuoted(f) ==
    CASE f = "nat2"            -> <<(<<"arm64-v8a">>), (<<"x86">>)>>
      [] f \in {"alt", "bare"} -> <<(<<"x86">>)>>
      [] f = "natsp"           -> <<(<<"A">>)>>
      [] f = "natp"            -> <<(<<"B">>)>>
      [] f = "mid"             -> <<(<<"D">>)>>
      [] f = "dens"            -> <<(<<"48">>)>>
      [] f = "scr"             -> <<(<<"small">>), (<<"large">>)>>
      [] f = "scr1"            -> <<(<<"small">>)>>
      [] f = "loc"             -> <<(<<"zh-CN">>), (<<"fr">>)>>
      [] f = "any"             -> <<(<<"A">>)>>
      [] OTHER                 -> << >>

\* the fragment ends its line
EndsLine(f) == f # "natp"

\* at the start of a line, the fragment makes it a native-code or alt-native-code line
StartsArchLine(f) == f \in {"nat2", "alt", "natsp", "nat0", "natp"}

RECURSIVE ArchTokens(_, _, _)
\* the quoted tokens of the native-code and alt-native-code lines, line by line
ArchTokens(frs, atStart, inArch) ==
    IF frs = << >> THEN << >>
    ELSE LET arch == IF atStart THEN StartsArchLine(Head(frs)) ELSE inArch
         IN  (IF arch THEN FragQuoted(Head(frs)) ELSE << >>)
             \o ArchTokens(Tail(frs), EndsLine(Head(frs)), arch)

\* C4: architectures is the concatenation, in line order, of the quoted tokens of
\* the lines that begin (after trimming) with native-code: or alt-native-code:,
\* duplicates kept, and holds no token of any other line.
ArchitecturesByLine ==
    pc = "parsed" => info.architectures = ArchTokens(frags, TRUE, FALSE)

\* native-code: 'arm64-v8a' 'x86' followed by alt-native-code: 'x86'
ArchitecturesByLineWitness ==
    /\ pc = "parsed"
    /\ frags = <<"nat2", "dens", "alt">>
    /\ info.architectures = <<(<<"arm64-v8a">>), (<<"x86">>), (<<"x86">>)>>

\* the quoted tokens of the first line carrying a marker, << >> when no line does
FirstLineTokens(frs, lines) ==
    LET at == {i \in 1..Len(frs) : frs[i] \in lines}
    IN  IF at = {} THEN << >> ELSE FragQuoted(frs[Min(at)])

\* C7: supports_screens holds exactly the quoted tokens of the line carrying the
\* supports-screens marker and none of a following line; densities and locales
\* likewise.
TokensOfOneLine ==
    pc = "parsed" =>
        /\ info.supports_screens = FirstLineTokens(frags, {"scr", "scr1"})
        /\ info.densities = FirstLineTokens(frags, {"dens"})
        /\ info.locales = FirstLineTokens(frags, {"loc"})

-----------------------------------------------------------------------------
(* Texts without any recognized pattern.                                   *)

\* some expression of the parser matches somewhere in the text, or a native-code
\* or alt-native-code line carries a quoted token
HasPattern(t) ==
    \/ \E i \in 1..Len(t) :
           \/ PackageAt(t, i).ok
           \/ PlatformNameAt(t, i).ok
           \/ PlatformCodeAt(t, i).ok
           \/ CompileSdkAt(t, i).ok
           \/ CompileCodenameAt(t, i).ok
           \/ MinSdkAt(t, i).ok
           \/ TargetSdkAt(t, i).ok
           \/ LocaleLabelAt(t, i).ok
           \/ GenericLabelAt(t, i).ok
           \/ AppNodeLabelAt(t, i).ok
           \/ LaunchableAt(t, i).ok
           \/ PermissionAt(t, i).ok
           \/ FeatureAt(t, i).ok
           \/ ImpliedFeatureAt(t, i).ok
           \/ ScreensAt(t, i).ok
           \/ AnyDensityAt(t, i).ok
           \/ DensitiesAt(t, i).ok
           \/ LocalesAt(t, i).ok
           \/ IconAt(t, i).ok
    \/ \E k \in 1..Len(SplitLines(t)) :
           /\ IsArchLine(Strip(SplitLines(t)[k]))
           /\ QuotedIn(Strip(SplitLines(t)[k])) # << >>

InfoFields ==
    {"package_name", "version_name", "version_code", "platform_build_version_name",
     "platform_build_version_code", "compile_sdk_version", "compile_sdk_codename",
     "min_sdk", "target_sdk", "app_name", "app_name_labels", "launchable_activity",
     "permissions", "features", "implied_features", "supports_screens",
     "supports_any_density", "densities", "locales", "icons", "raw", "architectures"}

\* r is t without its leading and trailing white space
IsTrimOf(r, t) ==
    /\ r = << >> \/ (~IsSpace(r[1]) /\ ~IsSpace(r[Len(r)]))
    /\ \E a \in 0..Len(t) :
           /\ a + Len(r) <= Len(t)
           /\ SubSeq(t, a + 1, a + Len(r)) = r
           /\ \A i \in (1..a) \cup ((a + Len(r) + 1)..Len(t)) : IsSpace(t[i])

\* C2: every text parses to a record of all the fields, raw being the text without
\* its leading and trailing white space; when the text holds none of the
\* recognized patterns, every other field is empty.
ZeroWithoutPattern ==
    pc = "parsed" =>
        /\ DOMAIN info = InfoFields
        /\ IsTrimOf(info.raw, text)
        /\ ~HasPattern(text) => \A f \in InfoFields \ {"raw"} : info[f] = << >>

\* a text with markers and quotes but no complete pattern, and white space around it
ZeroWithoutPatternWitness ==
    /\ pc = "parsed"
    /\ frags = <<"sp", "pkg_", "perm_", "nl">>
    /\ ~HasPattern(text)
    /\ info.raw = SubSeq(text, 2, Len(text) - 1)
    /\ info.permissions = << >>

-----------------------------------------------------------------------------
(* The display: load_sdk_versions and MainWindow.fill_info.  The Chinese   *)
(* captions of the window are written in English here.                     *)

\* "(无)"
NoneText == <<"(none)">>

\* "(未检测到)"
NotDetectedText == <<"(not detected)">>

RECURSIVE Join(_, _)
\* sep.join(list)
Join(list, sep) ==
    IF list = << >> THEN << >>
    ELSE IF Len(list) = 1 THEN Head(list)
    ELSE Head(list) \o sep \o Join(Tail(list), sep)

RECURSIVE LStripChars(_, _)
LStripChars(s, chars) ==
    IF s # << >> /\ Head(s) \in chars THEN LStripChars(Tail(s), chars) ELSE s

RECURSIVE RStripChars(_, _)
RStripChars(s, chars) ==
    IF s # << >> /\ s[Len(s)] \in chars
    THEN RStripChars(SubSeq(s, 1, Len(s) - 1), chars)
    ELSE s

\* str.strip(chars)
StripChars(s, chars) == RStripChars(LStripChars(s, chars), chars)

\* the items of android_sdk_versions.json
SdkFileItems ==
    <<[apiLevel |-> <<"33">>, version |-> <<"Android ", "13">>, codename |-> <<"Tiramisu">>],
      [apiLevel |-> <<"48">>, version |-> <<"Android ", "14">>,
       codename |-> <<"Upside", SP, "Down", SP, "Cake">>],
      [apiLevel |-> <<"192">>, version |-> <<"1.0">>, codename |-> << >>]>>

\* one entry of sdk_map: "<version> <codename>" without the "Android " prefix and
\* without the spaces of the codename, or the version alone
SdkLabel(item) ==
    LET version  == IF item.version # << >> /\ Head(item.version) = "Android "
                    THEN Tail(item.version)
                    ELSE item.version
        codename == SelectSeq(item.codename, LAMBDA t : t # SP)
    IN  IF codename # << >> THEN version \o <<SP>> \o codename ELSE version

\* load_sdk_versions() or {} : no map when the file is absent or cannot be read
load_sdk_versions(sdk_file) ==
    IF sdk_file = "present"
    THEN DictFrom(<< >>, [i \in 1..Len(SdkFileItems) |->
                             <<SdkFileItems[i].apiLevel, SdkLabel(SdkFileItems[i])>>])
    ELSE << >>

\* fmt_sdk(value or "?")
fmt_sdk(sdk_map, api_level) ==
    IF api_level = << >> \/ api_level = <<"?">> THEN <<"?">>
    ELSE IF DictHas(sdk_map, api_level)
    THEN api_level \o <<"(">> \o DictGet(sdk_map, api_level) \o <<")">>
    ELSE api_level

\* the locales fill_info lists first
DisplayPreferred ==
    <<(<<"zh-CN">>), (<<"zh-HK">>), (<<"zh-TW">>), (<<"en-GB">>), (<<"en-US">>),
      (<<"ja">>), (<<"ko">>)>>

\* the number added to len(preferred) in the break test of the second loop
SupplementCap == 5

\* the break test with > in the place of >=
CapExceeded(shown) == Cardinality(shown) > SupplementCap + Len(DisplayPreferred)

\* the second loop stops before an item when this holds
CapReached(shown) == Cardinality(shown) >= SupplementCap + Len(DisplayPreferred)

RECURSIVE PreferredLoop(_, _, _)
\* for k in preferred: if k in labels and labels[k]: append the line, shown.add(k)
PreferredLoop(labels, prefs, acc) ==
    IF prefs = << >> THEN acc
    ELSE IF DictHas(labels, Head(prefs)) /\ DictGet(labels, Head(prefs)) # << >>
    THEN PreferredLoop(labels, Tail(prefs),
                       [lines |-> Append(acc.lines, <<Head(prefs), DictGet(labels, Head(prefs))>>),
                        shown |-> acc.shown \cup {Head(prefs)}])
    ELSE PreferredLoop(labels, Tail(prefs), acc)

RECURSIVE SupplementLoop(_, _)
\* for k, v in labels.items(): break at the cap; if k not in shown and v: append
SupplementLoop(items, acc) ==
    IF items = << >> THEN acc
    ELSE IF CapReached(acc.shown) THEN acc
    ELSE IF Head(items)[1] \notin acc.shown /\ Head(items)[2] # << >>
    THEN SupplementLoop(Tail(items),
                        [lines |-> Append(acc.lines, Head(items)),
                         shown |-> acc.shown \cup {Head(items)[1]}])
    ELSE SupplementLoop(Tail(items), acc)

\* the <<locale, label>> entries fill_info lists, in the order of their lines
ListedLabels(labels) ==
    SupplementLoop(labels, PreferredLoop(labels, DisplayPreferred,
                                         [lines |-> << >>, shown |-> {}])).lines

\* int() of a lexeme of digits, and its number of digits
TokenInt(t) == CASE t = "48" -> 48 [] t = "192" -> 192 [] t = "33" -> 33

TokenWidth(t) == CASE t = "48" -> 2 [] t = "192" -> 3 [] t = "33" -> 2

RECURSIVE Pow10(_)
Pow10(n) == IF n = 0 THEN 1 ELSE 10 * Pow10(n - 1)

RECURSIVE IntOf(_, _)
\* int(s) for a string of digits
IntOf(s, acc) ==
    IF s = << >> THEN acc
    ELSE IntOf(Tail(s), acc * Pow10(TokenWidth(Head(s))) + TokenInt(Head(s)))

RECURSIVE InsertByInt(_, _)
InsertByInt(x, sorted) ==
    IF sorted = << >> THEN <<x>>
    ELSE IF IntOf(x[1], 0) < IntOf(Head(sorted)[1], 0) THEN <<x>> \o sorted
    ELSE <<Head(sorted)>> \o InsertByInt(x, Tail(sorted))

RECURSIVE SortedByInt(_)
\* sorted(icons.items(), key=lambda x: int(x[0])), which is stable
SortedByInt(items) ==
    IF items = << >> THEN << >>
    ELSE InsertByInt(items[Len(items)], SortedByInt(SubSeq(items, 1, Len(items) - 1)))

\* "k: v"
KeyValueLine(kv) == kv[1] \o <<":", SP>> \o kv[2]

\* the lines of the features box
FeatureLines(feats, implied) ==
    (IF feats # << >> THEN <<(<<"[uses-feature]">>)>> \o feats ELSE << >>)
    \o (IF implied # << >>
        THEN (IF feats # << >> THEN <<(<< >>)>> ELSE << >>)
             \o <<(<<"[uses-implied-feature]">>)>> \o implied
        ELSE << >>)

\* a comma separated list, or "(none)"
CommaList(list) == IF list # << >> THEN Join(list, <<",", SP>>) ELSE NoneText

\* the lines of the locales / screens / densities box
LocaleLines(i) ==
    <<(<<"locales(", ToString(Len(i.locales)), "): ">> \o CommaList(i.locales)),
      (<<"screens: ">> \o CommaList(i.supports_screens)),
      (<<"densities: ">> \o CommaList(i.densities))>>
    \o (IF i.supports_any_density # << >>
        THEN <<(<<"supports-any-density: ">> \o i.supports_any_density)>>
        ELSE << >>)

\* the lines of the "other" box
OtherLines(i) ==
    LET shown == ListedLabels(i.app_name_labels)
        icons == SortedByInt(i.icons)
    IN  (IF i.platform_build_version_name # << >>
         THEN <<(<<"platformBuildVersionName: ">> \o i.platform_build_version_name)>>
         ELSE << >>)
        \o (IF i.platform_build_version_code # << >>
            THEN <<(<<"platformBuildVersionCode: ">> \o i.platform_build_version_code)>>
            ELSE << >>)
        \o (IF i.compile_sdk_codename # << >>
            THEN <<(<<"compileSdkVersionCodename: ">> \o i.compile_sdk_codename)>>
            ELSE << >>)
        \o (IF i.app_name_labels # << >>
            THEN <<(<< >>), (<<"[some localized app names]">>)>>
                 \o [k \in 1..Len(shown) |-> KeyValueLine(shown[k])]
            ELSE << >>)
        \o (IF i.icons # << >>
            THEN <<(<< >>), (<<"[icons by density]">>)>>
                 \o [k \in 1..Len(icons) |-> KeyValueLine(icons[k])]
            ELSE << >>)

\* the texts fill_info sets on the widgets
fill_info(i, sdk_file) ==
    LET sdk_map  == load_sdk_versions(sdk_file)
        features == FeatureLines(i.features, i.implied_features)
        other    == OtherLines(i)
    IN  [le_app_name |-> i.app_name,
         le_pkg |-> i.package_name,
         le_ver |-> StripChars(i.version_name \o <<SP, "/", SP>> \o i.version_code,
                               {SP, "/"}),
         le_sdk |-> <<"min:">> \o fmt_sdk(sdk_map, i.min_sdk)
                    \o <<SP, SP, "target:">> \o fmt_sdk(sdk_map, i.target_sdk)
                    \o <<SP, SP, "compile:">> \o fmt_sdk(sdk_map, i.compile_sdk_version),
         le_launch |-> i.launchable_activity,
         le_arch |-> IF i.architectures # << >>
                     THEN Join(i.architectures, <<",", SP>>)
                     ELSE NotDetectedText,
         te_permissions |-> IF i.permissions # << >>
                            THEN Join(i.permissions, <<NL>>)
                            ELSE NoneText,
         te_features |-> IF features # << >> THEN Join(features, <<NL>>) ELSE NoneText,
         te_locales |-> Join(LocaleLines(i), <<NL>>),
         te_other |-> IF other # << >> THEN Join(other, <<NL>>) ELSE NoneText]

-----------------------------------------------------------------------------
(* fill_info applied to the record of a dump that holds locale labels.     *)

MaxOther == 6

\* locales that are not among the preferred ones
OtherLocales == <<"fr", "de", "zh", "es", "it", "pt", "ru", "ar", "nl-NL">>

\* the preferred locales that may also carry an empty label in the inputs
MaybeEmpty == {"zh-CN", "en-US"}

\* the labels of a dump: each preferred locale absent, empty or set; the first n
\* other locales set, the e-th of them to the empty label; the preferred locales
\* before or after the others
LabelDicts ==
    {LET pref   == SelectSeq(DisplayPreferred, LAMBDA k : st[k[1]] # "absent")
         prefs  == [i \in 1..Len(pref) |->
                       <<pref[i], IF st[pref[i][1]] = "set" THEN <<"A">> ELSE << >>>>]
         others == [i \in 1..n |-> <<(<<OtherLocales[i]>>), IF i = e THEN << >> ELSE <<"B">>>>]
     IN  IF first THEN prefs \o others ELSE others \o prefs :
     st \in {f \in [{"zh-CN", "zh-HK", "zh-TW", "en-GB", "en-US", "ja", "ko"} ->
                       {"absent", "empty", "set"}] :
                \A k \in DOMAIN f : f[k] = "empty" => k \in MaybeEmpty},
     n \in 0..MaxOther, e \in 0..2, first \in BOOLEAN}

InitFill ==
    /\ pc = "parsed"
    /\ frags = << >>
    /\ text = << >>
    /\ \E labels \in LabelDicts :
           info = [InfoDefaults(<< >>) EXCEPT
                     !.app_name_labels = labels,
                     !.app_name = ResolveAppName(labels, << >>, << >>)]
    /\ calls = << >>
    /\ te_raw = << >>
    /\ display = NoDisplay
    /\ listed = << >>
    /\ dialog = NoDialog
    /\ last = NoOp
    /\ env = NoEnv

\* self.fill_info(info)
FillInfo ==
    /\ pc = "parsed"
    /\ display' = fill_info(info, env.sdk_file)
    /\ listed' = ListedLabels(info.app_name_labels)
    /\ pc' = "filled"
    /\ UNCHANGED <<frags, text, info, calls, te_raw, dialog, last, env>>

NextFill == FillInfo

SpecFill == InitFill /\ [][NextFill]_vars

\* the listed entries whose locale is none of the preferred ones
Supplementary(l) ==
    SelectSeq(l, LAMBDA kv : \A i \in 1..Len(DisplayPreferred) : DisplayPreferred[i] # kv[1])

\* the lines of a box
LinesOf(box) == SplitLines(box)

\* C8: fill_info lists at most 5 + 7 = 12 locale labels, each of them non-empty
\* and no locale twice, and each listed entry is a line of the "other" box.
ListedWithinCap ==
    pc = "filled" =>
        /\ Len(listed) <= SupplementCap + Len(DisplayPreferred)
        /\ Len(listed) <= 12
        /\ LET lines == LinesOf(display.te_other)
           IN  \A i \in 1..Len(listed) :
                   /\ listed[i][2] # << >>
                   /\ DictGet(info.app_name_labels, listed[i][1]) = listed[i][2]
                   /\ \E k \in 1..Len(lines) : lines[k] = KeyValueLine(listed[i])
        /\ \A i, j \in 1..Len(listed) : listed[i][1] = listed[j][1] => i = j

\* thirteen non-empty labels, of which twelve are listed
ListedWithinCapWitness ==
    /\ pc = "filled"
    /\ Len(SelectSeq(info.app_name_labels, LAMBDA kv : kv[2] # << >>)) >= 13
    /\ Len(listed) = 12

\* C9: whatever number of preferred locales is present, fill_info lists at most
\* 5 labels of locales that are not preferred.
AtMostFiveSupplementary ==
    pc = "filled" => Len(Supplementary(listed)) <= 5

-----------------------------------------------------------------------------
(* The main window: process_apk and reparse_current.                       *)

\* a dump with every kind of entry
SampleDump ==
    <<"package", ":", SP>> \o NameAttr(<<"A">>) \o <<SP, "versionCode=">> \o Quoted(<<"33">>)
    \o <<SP, "versionName=">> \o Quoted(<<"B">>)
    \o <<SP, "compileSdkVersion=">> \o Quoted(<<"33">>) \o <<NL>>
    \o <<"minSdkVersion", ":">> \o Quoted(<<"192">>) \o <<NL>>
    \o Flatten(<<"p1", "gen", "hk">>)
    \o <<"application-icon-", "192", ":">> \o Quoted(<<"A">>) \o <<NL>>
    \o <<"application-icon-", "48", ":">> \o Quoted(<<"B">>) \o <<NL>>
    \o Flatten(<<"loc", "nat2">>)

\* a byte that is not valid UTF-8
BadByte == "<ff>"

\* what the tool may write on its standard output
Stdouts ==
    {<< >>, <<SP, NL>>, SampleDump,
     Flatten(<<"scr1", "bare">>),
     <<"application-label", ":">> \o Quoted(<<"A", NBSP, "B">>) \o <<NL>>,
     <<BadByte>> \o Flatten(<<"p2">>) \o <<BadByte, NL>>}

\* what the tool may write on its standard error
Stderrs == {<< >>, <<"E", SP, "D", NL>>}

\* data.decode("utf-8", errors="ignore"), which never raises: the later encodings
\* of the loop are not tried
Decode(data) == SelectSeq(data, LAMBDA t : t # BadByte)

\* find_aapt2(): the binary next to the script, else the one on the PATH
find_aapt2(local, onpath) ==
    IF local THEN [raised |-> "none", path |-> "here/aapt2"]
    ELSE IF onpath THEN [raised |-> "none", path |-> "PATH/aapt2"]
    ELSE [raised |-> "FileNotFoundError", message |-> "aapt2 not found"]

\* run_aapt2_dump_badging without the except clause for CalledProcessError
run_aapt2_uncaught(local, onpath, run, out, err) ==
    IF find_aapt2(local, onpath).raised # "none" THEN find_aapt2(local, onpath)
    ELSE IF run = "launch_not_found"
    THEN [raised |-> "FileNotFoundError", message |-> "no such file"]
    ELSE IF run \in {"launch_error", "nonzero_exit"}
    THEN [raised |-> "Exception", message |-> "cannot execute"]
    ELSE [raised |-> "none", text |-> Decode(IF out # << >> THEN out ELSE err)]

\* run_aapt2_dump_badging(apk_path).  run is what subprocess.run does: it returns
\* ("exit0"), raises CalledProcessError ("nonzero_exit"), FileNotFoundError
\* ("launch_not_found") or another exception ("launch_error")
run_aapt2_dump_badging(local, onpath, run, out, err) ==
    IF find_aapt2(local, onpath).raised # "none" THEN find_aapt2(local, onpath)
    ELSE IF run = "launch_not_found"
    THEN [raised |-> "FileNotFoundError", message |-> "no such file"]
    ELSE IF run = "launch_error"
    THEN [raised |-> "Exception", message |-> "cannot execute"]
    ELSE [raised |-> "none", text |-> Decode(IF out # << >> THEN out ELSE err)]

\* QMessageBox.warning(self, "提示", "请选择有效的 APK 文件。")
InvalidFileDialog ==
    [kind |-> "warning", title |-> "notice", message |-> "choose a valid APK file"]

\* QMessageBox.critical(self, "错误", str(e))
ErrorDialog(message) == [kind |-> "critical", title |-> "error", message |-> message]

\* QMessageBox.critical(self, "错误", f"执行 aapt2 失败：\n{e}")
ExecFailedDialog(message) ==
    [kind |-> "critical", title |-> "error", message |-> "running aapt2 failed", detail |-> message]

RECURSIVE toPlainText(_)
\* self.te_raw.toPlainText(): the text of the document with every no-break space
\* replaced by a space (QTextDocument::toPlainText).  The texts here break their
\* lines with "\n" only, which setPlainText and toPlainText keep.
toPlainText(doc) ==
    IF doc = << >> THEN << >>
    ELSE <<IF Head(doc) = NBSP THEN SP ELSE Head(doc)>> \o toPlainText(Tail(doc))

\* not text.strip()
IsBlank(t) == Strip(t) = << >>

\* the situation a call of process_apk is in
CaseOf(path_ok, local, onpath, run) ==
    IF ~path_ok THEN "no_file"
    ELSE IF ~local /\ ~onpath THEN "no_aapt2"
    ELSE run

\* what a call does not get to consult is left at its first value: the binary and
\* the run when the file is missing, the PATH when the binary lies next to the
\* script, the run when there is no binary, the output when the tool does not
\* start, the standard error when the standard output is not empty
Consulted(path_ok, local, onpath, run, out, err) ==
    /\ ~path_ok => ~local /\ ~onpath
    /\ local => ~onpath
    /\ ~path_ok \/ (~local /\ ~onpath) => run = "exit0"
    /\ CaseOf(path_ok, local, onpath, run) \notin {"exit0", "nonzero_exit"} =>
           out = << >> /\ err = << >>
    /\ out # << >> => err = << >>

\* process_apk(path): path_ok is "path and os.path.isfile(path)"
process_apk(path_ok, local, onpath, run, out, err) ==
    LET r == run_aapt2_dump_badging(local, onpath, run, out, err)
        c == CaseOf(path_ok, local, onpath, run)
    IN  IF ~path_ok \/ r.raised # "none"
        THEN /\ dialog' = IF ~path_ok THEN InvalidFileDialog
                          ELSE IF r.raised = "FileNotFoundError" THEN ErrorDialog(r.message)
                          ELSE ExecFailedDialog(r.message)
             /\ last' = [op |-> "process_apk", case |-> c, reached |-> FALSE, data |-> << >>]
             /\ UNCHANGED <<text, info, te_raw, display, listed>>
        ELSE /\ te_raw' = r.text
             /\ text' = r.text
             /\ info' = parse_aapt2_output(r.text)
             /\ display' = fill_info(info', env.sdk_file)
             /\ listed' = ListedLabels(info'.app_name_labels)
             /\ dialog' = NoDialog
             /\ last' = [op |-> "process_apk", case |-> c, reached |-> TRUE,
                         data |-> IF out # << >> THEN out ELSE err]

ProcessApk ==
    /\ \E path_ok, local, onpath \in BOOLEAN :
       \E run \in {"exit0", "nonzero_exit", "launch_not_found", "launch_error"} :
       \E out \in Stdouts, err \in Stderrs :
           /\ Consulted(path_ok, local, onpath, run, out, err)
           /\ process_apk(path_ok, local, onpath, run, out, err)
    /\ UNCHANGED <<pc, frags, calls, env>>

\* reparse_current(): t is self.te_raw.toPlainText()
ReparseCurrent ==
    /\ \E t \in {toPlainText(te_raw)} :
           IF IsBlank(t)
           THEN /\ last' = [op |-> "reparse_current", case |-> "blank", reached |-> FALSE,
                            data |-> << >>]
                /\ UNCHANGED <<text, info, display, listed>>
           ELSE /\ text' = t
                /\ info' = parse_aapt2_output(t)
                /\ display' = fill_info(info', env.sdk_file)
                /\ listed' = ListedLabels(info'.app_name_labels)
                /\ last' = [op |-> "reparse_current", case |-> "text", reached |-> TRUE,
                            data |-> << >>]
    /\ dialog' = NoDialog
    /\ UNCHANGED <<pc, frags, calls, te_raw, env>>

Init ==
    /\ pc = "idle"
    /\ frags = << >>
    /\ text = << >>
    /\ info = NoRecord
    /\ calls = << >>
    /\ te_raw = << >>
    /\ display = NoDisplay
    /\ listed = << >>
    /\ dialog = NoDialog
    /\ last = NoOp
    /\ env \in [sdk_file : {"absent", "unreadable", "present"}]

Next == ProcessApk \/ ReparseCurrent

Spec == Init /\ [][Next]_vars

-----------------------------------------------------------------------------
(* Claims about the main window.                                           *)

\* the three failures C6 names
NamedFailures == {"no_file", "no_aapt2", "nonzero_exit"}

\* C6 (as stated): a missing package file, a missing aapt2 binary and a failing
\* aapt2 process (non-zero exit) are each reported as an error, each told apart
\* from the other two, and none of them reaches the parser.
FailuresAllReported ==
    (last.op = "process_apk" /\ last.case \in NamedFailures) =>
        /\ dialog.kind \in {"warning", "critical"}
        /\ ~last.reached
        /\ last.case = "no_file" <=> dialog = InvalidFileDialog
        /\ last.case = "no_aapt2" <=> dialog = ErrorDialog("aapt2 not found")

\* C6 (amended): a missing package file and a missing aapt2 binary are each
\* reported as an error, told apart from each other and from a tool that could
\* not be started, and none of these reaches the parser or changes the window; a
\* non-zero exit of aapt2 is not reported: what the tool wrote (standard output,
\* else standard error) is decoded, shown as the raw output and parsed.
FailuresAtBoundary ==
    last.op = "process_apk" =>
        /\ last.case = "no_file" => dialog = InvalidFileDialog /\ ~last.reached
        /\ last.case = "no_aapt2" => dialog = ErrorDialog("aapt2 not found") /\ ~last.reached
        /\ last.case = "launch_not_found" =>
               dialog = ErrorDialog("no such file") /\ ~last.reached
        /\ last.case = "launch_error" =>
               dialog = ExecFailedDialog("cannot execute") /\ ~last.reached
        /\ last.case \in {"exit0", "nonzero_exit"} =>
               /\ dialog = NoDialog
               /\ last.reached
               /\ te_raw = Decode(last.data)
               /\ text = te_raw
               /\ info = parse_aapt2_output(te_raw)

\* aapt2 exited non-zero with a message on its standard error only: no dialog, and
\* the message is the raw output the parser was given
FailuresAtBoundaryWitness ==
    /\ last.op = "process_apk"
    /\ last.case = "nonzero_exit"
    /\ last.data = <<"E", SP, "D", NL>>
    /\ dialog = NoDialog
    /\ info.raw = <<"E", SP, "D">>

\* the texts of the widgets were set by a successful process_apk
Loaded == info # NoRecord

\* C10: once a process_apk has succeeded, the displayed fields are those of
\* fill_info on the parse of the raw output shown; a process_apk that fails and a
\* reparse_current on blank raw text change neither the raw output nor any
\* displayed field; a reparse_current leaves every displayed field as it was.
DisplayFollowsRaw ==
    /\ [](Loaded =>
              /\ display = fill_info(parse_aapt2_output(toPlainText(te_raw)), env.sdk_file)
              /\ listed = ListedLabels(parse_aapt2_output(toPlainText(te_raw)).app_name_labels))
    /\ [][(last'.op \in {"process_apk", "reparse_current"} /\ ~last'.reached)
              => UNCHANGED <<te_raw, display, listed>>]_vars
    /\ [][last'.op = "reparse_current" => UNCHANGED <<te_raw, display, listed>>]_vars

-----------------------------------------------------------------------------
(* Successive calls of the parser.                                         *)

MaxCalls == 3

\* the texts the calls are made on
CallTexts ==
    {<< >>, Flatten(<<"cn", "p1">>), Flatten(<<"zh", "gen0">>), Flatten(<<"p1", "nat2">>),
     Flatten(<<"scr", "dens">>)}

InitCalls ==
    /\ pc = "calls"
    /\ frags = << >>
    /\ text = << >>
    /\ info = NoRecord
    /\ calls = << >>
    /\ te_raw = << >>
    /\ display = NoDisplay
    /\ listed = << >>
    /\ dialog = NoDialog
    /\ last = NoOp
    /\ env = NoEnv

\* info = parse_aapt2_output(t); calls is the log of the calls made so far
Call ==
    /\ Len(calls) < MaxCalls
    /\ \E t \in CallTexts :
           /\ text' = t
           /\ info' = parse_aapt2_output(t)
           /\ calls' = Append(calls, [text |-> t, info |-> info'])
    /\ UNCHANGED <<pc, frags, te_raw, display, listed, dialog, last, env>>

NextCalls == Call

SpecCalls == InitCalls /\ [][NextCalls]_vars

====
